---- MODULE Spec2Model ----
(***************************************************************************)
(* Model of afest_sched.py: the event record, the directed matcher         *)
(* (AFestEvent.is_match), the midnight-split reunifier (merge_events,      *)
(* merge_split_events), the identifier backfill (add_ids_to_attendify)     *)
(* and the sorted merge-join differ (diff_event_lists).                    *)
(*                                                                         *)
(* Strings of the program are TLA+ strings.  Python's None is the value    *)
(* None below.  Sequences are 1-based here and 0-based in the program: an  *)
(* index variable i of the program addresses element i + 1.                *)
(***************************************************************************)
EXTENDS Integers, Sequences, FiniteSets, TLC

VARIABLES
    \* ---- one call of a two-argument function of the record model
    event1, event2,      \* the two records handed to the call
    call,                \* which call was made ("none" before it)
    match_ret,           \* value returned by is_match
    merge_ret,           \* outcome of merge_events
    \* ---- merge_split_events
    events,              \* the argument
    by_afest_id,         \* dict: afest_id -> list of events
    pending,             \* keys of by_afest_id the second loop has not visited
    result,              \* list built by the second loop
    merge_pc,            \* position in merge_split_events
    merge_out,           \* how merge_split_events ended
    \* ---- add_ids_to_attendify
    afest_events,        \* the source feed, in file order
    attendify_events,    \* the distribution feed, in row order
    workbook,            \* per row: attendify id and the tags appended to its description
    at_index,            \* position of the outer loop
    exact_matches, title_matches,
    saved,               \* workbook.save has run
    decided,             \* sharded run: rows whose search is done, with its outcome
    processed,           \* sharded run: rows whose loop body is done, in that order
    \* ---- diff_event_lists
    left, right,         \* the two arguments
    left_index, right_index,
    diff_result,         \* the dictionary under construction
    diff_pc              \* "scan" while in the function, "done" once it returned

pure_vars     == <<event1, event2, call, match_ret, merge_ret>>
merge_vars    == <<events, by_afest_id, pending, result, merge_pc, merge_out>>
backfill_vars == <<afest_events, attendify_events, workbook, at_index,
                   exact_matches, title_matches, saved, decided, processed>>
diff_vars     == <<left, right, left_index, right_index, diff_result, diff_pc>>
vars          == <<pure_vars, merge_vars, backfill_vars, diff_vars>>

-----------------------------------------------------------------------------
(* Program constants                                                       *)

RETURN_VALUE_EXCESSIVE_ID_USE == 3
RETURN_VALUE_SPLIT_EVENTS_SAME_DAY == 4

DIFF_KEY_ADDED   == "added"
DIFF_KEY_DELETED == "deleted"
DIFF_KEY_CHANGED == "changed"
DIFF_KEY_MATCHED == "matched"

\* Python's None, the afest_id of a distribution row without an [afestid:..] tag.
None == "None"

-----------------------------------------------------------------------------
(* The record model                                                        *)

AFestEvent(t, d, st, en, de, lo, tr, at, af) ==
    [title |-> t, date |-> d, start_time |-> st, end_time |-> en, desc |-> de,
     location |-> lo, track |-> tr, attendify_id |-> at, afest_id |-> af]

\* Placeholder carried in an outcome that holds no event.
NoEvent == AFestEvent("", "", "", "", "", "", "", "", None)

-----------------------------------------------------------------------------
(* datetime.strptime(s, "%m/%d/%Y") and date subtraction.  %m and %d accept *)
(* one or two digits, so "8/1/2016" and "08/01/2016" are different strings  *)
(* with the same parsed value.                                              *)

DateStrings == {"07/31/2016", "08/01/2016", "8/1/2016", "08/02/2016"}

strptime(s) ==
    CASE s = "07/31/2016" -> [year |-> 2016, month |-> 7, day |-> 31]
      [] s = "08/01/2016" -> [year |-> 2016, month |-> 8, day |-> 1]
      [] s = "8/1/2016"   -> [year |-> 2016, month |-> 8, day |-> 1]
      [] s = "08/02/2016" -> [year |-> 2016, month |-> 8, day |-> 2]

IsLeap(y) == (y % 4 = 0) /\ ((y % 100 # 0) \/ (y % 400 = 0))

DaysInMonth(y, m) ==
    IF m = 2 THEN (IF IsLeap(y) THEN 29 ELSE 28)
    ELSE IF m \in {4, 6, 9, 11} THEN 30 ELSE 31

RECURSIVE DaysBeforeMonth(_, _)
DaysBeforeMonth(y, m) ==
    IF m = 1 THEN 0 ELSE DaysBeforeMonth(y, m - 1) + DaysInMonth(y, m - 1)

DaysBeforeYear(y) ==
    (y - 1) * 365 + ((y - 1) \div 4) - ((y - 1) \div 100) + ((y - 1) \div 400)

\* Proleptic Gregorian ordinal of a parsed date.
toordinal(dt) == DaysBeforeYear(dt.year) + DaysBeforeMonth(dt.year, dt.month) + dt.day

\* (a - b).days for two parsed dates (both at midnight).
DeltaDays(a, b) == toordinal(a) - toordinal(b)

\* a < b on parsed dates.
DateLess(a, b) == toordinal(a) < toordinal(b)

-----------------------------------------------------------------------------
(* AFestEvent.is_match                                                     *)

is_match_no_end_of_day(self, other) ==
    IF (self.title # other.title) \/ (self.location # other.location)
    THEN FALSE
    ELSE IF self.date = other.date
         THEN (self.start_time = other.start_time) /\ (self.end_time = other.end_time)
         ELSE (DeltaDays(strptime(self.date), strptime(other.date)) = 1)
              /\ (self.start_time = "00:00")
              /\ (self.end_time = other.end_time)

is_match(self, other) ==
    IF (self.title # other.title) \/ (self.location # other.location)
    THEN FALSE
    ELSE IF self.date = other.date
         THEN (self.start_time = other.start_time)
              /\ ((self.end_time = other.end_time) \/ (self.end_time = "23:59"))
         ELSE (DeltaDays(strptime(self.date), strptime(other.date)) = 1)
              /\ (self.start_time = "00:00")
              /\ (self.end_time = other.end_time)

-----------------------------------------------------------------------------
(* Fatal exits.  The program writes ArgumentParser.exit(status, message),   *)
(* but the module binds only the names `argparse` and what openpyxl         *)
(* exports: the bare name ArgumentParser is unbound, so evaluating the call  *)
(* raises NameError before the message is formatted.  Nothing catches it:   *)
(* the interpreter prints a traceback and the process ends with status 1.   *)

Outcome(k, s, m) == [kind |-> k, status |-> s, message |-> m]

Running   == Outcome("running", 0, <<>>)
Returned  == Outcome("return", 0, <<>>)

ArgumentParser_exit(status, message) == Outcome("NameError", 1, <<>>)

-----------------------------------------------------------------------------
(* merge_events                                                            *)

MergeRet(o, e) == [outcome |-> o, event |-> e]

merge_events_first_starts(e1, e2) ==
    IF e1.date = e2.date
    THEN MergeRet(ArgumentParser_exit(RETURN_VALUE_SPLIT_EVENTS_SAME_DAY,
                                      <<e1.date, e1.title, e2.title>>), NoEvent)
    ELSE MergeRet(Returned,
                  AFestEvent(e1.title, e1.date, e1.start_time, e2.end_time,
                             e1.desc, e1.location, e1.track, e1.attendify_id,
                             e1.afest_id))

merge_events(e1, e2) ==
    IF e1.date = e2.date
    THEN MergeRet(ArgumentParser_exit(RETURN_VALUE_SPLIT_EVENTS_SAME_DAY,
                                      <<e1.date, e1.title, e2.title>>), NoEvent)
    ELSE LET date1 == strptime(e1.date)
             date2 == strptime(e2.date)
             startEvent == IF DateLess(date1, date2) THEN e1 ELSE e2
             endEvent   == IF DateLess(date1, date2) THEN e2 ELSE e1
         IN  MergeRet(Returned,
                      AFestEvent(startEvent.title, startEvent.date,
                                 startEvent.start_time, endEvent.end_time,
                                 startEvent.desc, startEvent.location,
                                 startEvent.track, startEvent.attendify_id,
                                 startEvent.afest_id))

-----------------------------------------------------------------------------
(* Ordering of identifiers.  afest_id values are compared with Python 2's  *)
(* < and >: strings by code point, lexicographically ("10" < "2"), and     *)
(* None below every string.                                                *)

IdStrings == {"10", "2", "9"}

\* The code points of an identifier's characters.
ord_seq(s) ==
    CASE s = "10" -> <<49, 48>>
      [] s = "2"  -> <<50>>
      [] s = "9"  -> <<57>>

RECURSIVE SeqLess(_, _)
SeqLess(a, b) ==
    IF b = <<>> THEN FALSE
    ELSE IF a = <<>> THEN TRUE
    ELSE IF Head(a) # Head(b) THEN Head(a) < Head(b)
    ELSE SeqLess(Tail(a), Tail(b))

py_less(a, b) ==
    IF a = None THEN b # None
    ELSE IF b = None THEN FALSE
    ELSE SeqLess(ord_seq(a), ord_seq(b))

py_greater(a, b) == py_less(b, a)

-----------------------------------------------------------------------------
(* unicodedata.normalize("NFC", s): a decomposed "e" + U+0301 composes to   *)
(* U+00E9; text already composed, or plain ASCII, is returned as it is.    *)

DescComposed   == "caf<U+00E9>"
DescDecomposed == "cafe<U+0301>"
DescOther      == "tea"

normalize_NFC(s) == IF s = DescDecomposed THEN DescComposed ELSE s

-----------------------------------------------------------------------------
(* Python dictionaries are functions; d[k] = v is DictPut.                 *)

EmptyDict == [k \in {} |-> <<>>]

DictPut(d, k, v) == [x \in (DOMAIN d) \cup {k} |-> IF x = k THEN v ELSE d[x]]

-----------------------------------------------------------------------------
(* diff_event_lists                                                        *)

PlainDiffFields == {"date", "start_time", "end_time", "title", "location", "track"}

ChangedKeys_no_track(l, r) ==
    {f \in PlainDiffFields \ {"track"} : l[f] # r[f]}
        \cup (IF normalize_NFC(l.desc) # normalize_NFC(r.desc) THEN {"desc"} ELSE {})

\* The keys the equal-id branch puts into `changes`.
ChangedKeys(l, r) ==
    {f \in PlainDiffFields : l[f] # r[f]}
        \cup (IF normalize_NFC(l.desc) # normalize_NFC(r.desc) THEN {"desc"} ELSE {})

\* The dictionary `changes` of the equal-id branch.
Changes(l, r) ==
    [f \in ChangedKeys(l, r) |->
        IF f = "desc" THEN <<normalize_NFC(l.desc), normalize_NFC(r.desc)>>
        ELSE <<l[f], r[f]>>]

EmptyDiffResult ==
    [added |-> <<>>, deleted |-> <<>>, changed |-> EmptyDict, matched |-> <<>>]

InJointScan ==
    diff_pc = "scan" /\ left_index < Len(left) /\ right_index < Len(right)

current_left  == left[left_index + 1]
current_right == right[right_index + 1]

\* if current_left.afest_id < current_right.afest_id
DiffDeleted ==
    /\ InJointScan
    /\ py_less(current_left.afest_id, current_right.afest_id)
    /\ diff_result' = [diff_result EXCEPT !.deleted = Append(@, current_left)]
    /\ left_index' = left_index + 1
    /\ UNCHANGED <<left, right, right_index, diff_pc>>

DiffAdded_both_advance ==
    /\ InJointScan
    /\ ~py_less(current_left.afest_id, current_right.afest_id)
    /\ py_greater(current_left.afest_id, current_right.afest_id)
    /\ diff_result' = [diff_result EXCEPT !.added = Append(@, current_right)]
    /\ left_index' = left_index + 1
    /\ right_index' = right_index + 1
    /\ UNCHANGED <<left, right, diff_pc>>

\* elif current_left.afest_id > current_right.afest_id
DiffAdded ==
    /\ InJointScan
    /\ ~py_less(current_left.afest_id, current_right.afest_id)
    /\ py_greater(current_left.afest_id, current_right.afest_id)
    /\ diff_result' = [diff_result EXCEPT !.added = Append(@, current_right)]
    /\ right_index' = right_index + 1
    /\ UNCHANGED <<left, right, left_index, diff_pc>>

DiffEqual_right_only ==
    /\ InJointScan
    /\ ~py_less(current_left.afest_id, current_right.afest_id)
    /\ ~py_greater(current_left.afest_id, current_right.afest_id)
    /\ LET changes == Changes(current_left, current_right)
       IN  diff_result' =
               IF Cardinality(DOMAIN changes) > 0
               THEN [diff_result EXCEPT
                        !.changed = DictPut(@, current_left.afest_id, changes)]
               ELSE [diff_result EXCEPT !.matched = Append(@, current_left)]
    /\ right_index' = right_index + 1
    /\ UNCHANGED <<left, right, left_index, diff_pc>>

\* else: equal identifiers
DiffEqual ==
    /\ InJointScan
    /\ ~py_less(current_left.afest_id, current_right.afest_id)
    /\ ~py_greater(current_left.afest_id, current_right.afest_id)
    /\ LET changes == Changes(current_left, current_right)
       IN  diff_result' =
               IF Cardinality(DOMAIN changes) > 0
               THEN [diff_result EXCEPT
                        !.changed = DictPut(@, current_left.afest_id, changes)]
               ELSE [diff_result EXCEPT !.matched = Append(@, current_left)]
    /\ left_index' = left_index + 1
    /\ right_index' = right_index + 1
    /\ UNCHANGED <<left, right, diff_pc>>

\* while left_index < len(left), after the joint scan
DiffLeftTail ==
    /\ diff_pc = "scan"
    /\ ~InJointScan
    /\ left_index < Len(left)
    /\ diff_result' = [diff_result EXCEPT !.deleted = Append(@, current_left)]
    /\ left_index' = left_index + 1
    /\ UNCHANGED <<left, right, right_index, diff_pc>>

\* while right_index < len(right), after the left tail
DiffRightTail ==
    /\ diff_pc = "scan"
    /\ ~(left_index < Len(left))
    /\ right_index < Len(right)
    /\ diff_result' = [diff_result EXCEPT !.added = Append(@, current_right)]
    /\ right_index' = right_index + 1
    /\ UNCHANGED <<left, right, left_index, diff_pc>>

\* return result
DiffReturn ==
    /\ diff_pc = "scan"
    /\ ~(left_index < Len(left))
    /\ ~(right_index < Len(right))
    /\ diff_pc' = "done"
    /\ UNCHANGED <<left, right, left_index, right_index, diff_result>>

-----------------------------------------------------------------------------
(* States of the parts of the program a specification does not run.        *)

PureIdle ==
    /\ event1 = NoEvent /\ event2 = NoEvent /\ call = "none"
    /\ match_ret = FALSE /\ merge_ret = MergeRet(Running, NoEvent)

MergeIdle ==
    /\ events = <<>> /\ by_afest_id = EmptyDict /\ pending = {}
    /\ result = <<>> /\ merge_pc = "idle" /\ merge_out = Running

BackfillIdle ==
    /\ afest_events = <<>> /\ attendify_events = <<>> /\ workbook = <<>>
    /\ at_index = 0 /\ exact_matches = 0 /\ title_matches = 0 /\ saved = FALSE
    /\ decided = EmptyDict /\ processed = <<>>

DiffIdle ==
    /\ left = <<>> /\ right = <<>> /\ left_index = 0 /\ right_index = 0
    /\ diff_result = EmptyDiffResult /\ diff_pc = "idle"

-----------------------------------------------------------------------------
(* Inputs of diff_event_lists: what diff_schedules hands it, two lists     *)
(* sorted ascending by afest_id with no identifier twice.  The left list   *)
(* may hold one record without identifier (None sorts first).              *)

MaxDiffLen == 2

WithId(e, id) == [e EXCEPT !.afest_id = id]

BaseEvent ==
    AFestEvent("Opening", "08/01/2016", "18:00", "23:59", DescComposed,
               "Main Hall", "Main", "u1", None)

\* Records of the source feed: the base record, or its description decomposed.
RightShapes == {BaseEvent, [BaseEvent EXCEPT !.desc = DescDecomposed]}

\* Records of the distribution feed: the base record with up to one field changed.
LeftShapes ==
    RightShapes \cup
    { [BaseEvent EXCEPT !.title = "Closing"],
      [BaseEvent EXCEPT !.date = "08/02/2016"],
      [BaseEvent EXCEPT !.start_time = "00:00"],
      [BaseEvent EXCEPT !.end_time = "18:00"],
      [BaseEvent EXCEPT !.desc = DescOther],
      [BaseEvent EXCEPT !.location = "Room 2"],
      [BaseEvent EXCEPT !.track = ""] }

\* The least identifier of a non-empty set, by py_less.
MinId(S) == CHOOSE x \in S : \A y \in S \ {x} : py_less(x, y)

RECURSIVE SortedIds(_)
SortedIds(S) ==
    IF S = {} THEN <<>> ELSE <<MinId(S)>> \o SortedIds(S \ {MinId(S)})

\* The lists over identifier set S, sorted by identifier, with shapes from Sh.
SortedLists(S, Sh) ==
    LET ids == SortedIds(S)
    IN  { [i \in 1..Len(ids) |-> WithId(f[ids[i]], ids[i])] : f \in [S -> Sh] }

InitDiff ==
    /\ PureIdle /\ MergeIdle /\ BackfillIdle
    /\ \E S \in SUBSET (IdStrings \cup {None}) :
          /\ Cardinality(S) <= MaxDiffLen
          /\ left \in SortedLists(S, LeftShapes)
    /\ \E S \in SUBSET IdStrings :
          /\ Cardinality(S) <= MaxDiffLen
          /\ right \in SortedLists(S, RightShapes)
    /\ left_index = 0 /\ right_index = 0
    /\ diff_result = EmptyDiffResult
    /\ diff_pc = "scan"

NextDiff ==
    \/ (DiffDeleted   /\ UNCHANGED <<pure_vars, merge_vars, backfill_vars>>)
    \/ (DiffAdded     /\ UNCHANGED <<pure_vars, merge_vars, backfill_vars>>)
    \/ (DiffEqual     /\ UNCHANGED <<pure_vars, merge_vars, backfill_vars>>)
    \/ (DiffLeftTail  /\ UNCHANGED <<pure_vars, merge_vars, backfill_vars>>)
    \/ (DiffRightTail /\ UNCHANGED <<pure_vars, merge_vars, backfill_vars>>)
    \/ (DiffReturn    /\ UNCHANGED <<pure_vars, merge_vars, backfill_vars>>)

SpecDiff == InitDiff /\ [][NextDiff]_vars

-----------------------------------------------------------------------------
(* Properties of diff_event_lists                                          *)

Count(seq, x) == Cardinality({k \in DOMAIN seq : seq[k] = x})

InChanged(id) == IF id \in DOMAIN diff_result.changed THEN 1 ELSE 0

MatchedWithId(id) ==
    Cardinality({k \in DOMAIN diff_result.matched : diff_result.matched[k].afest_id = id})

\* Number of buckets entries a distribution record accounts for.
LeftShare(l) ==
    Count(diff_result.deleted, l) + InChanged(l.afest_id) + Count(diff_result.matched, l)

\* Number of bucket entries a source record accounts for.
RightShare(r) ==
    Count(diff_result.added, r) + InChanged(r.afest_id) + MatchedWithId(r.afest_id)

LeftIds  == {left[i].afest_id : i \in DOMAIN left}
RightIds == {right[j].afest_id : j \in DOMAIN right}

\* C1: when diff_event_lists has returned on sorted, duplicate-free inputs,
\* every distribution record accounts for exactly one entry of deleted,
\* changed or matched, every source record for exactly one entry of added,
\* changed or matched, and an equal-id pair is one entry (the bucket sizes
\* add up to the input lengths).
C1_DiffPartitions ==
    diff_pc = "done" =>
        /\ \A i \in DOMAIN left  : LeftShare(left[i]) = 1
        /\ \A j \in DOMAIN right : RightShare(right[j]) = 1
        /\ Len(diff_result.deleted) + Cardinality(DOMAIN diff_result.changed)
               + Len(diff_result.matched) = Len(left)
        /\ Len(diff_result.added) + Cardinality(DOMAIN diff_result.changed)
               + Len(diff_result.matched) = Len(right)

\* C1 witness: a finished diff with a deleted record, an added record and
\* an equal-id pair.
C1_Witness ==
    /\ diff_pc = "done"
    /\ Len(diff_result.deleted) > 0
    /\ Len(diff_result.added) > 0
    /\ Cardinality(DOMAIN diff_result.changed) + Len(diff_result.matched) > 0

AllDiffFields == PlainDiffFields \cup {"desc"}

\* The pairs (i, j) of records with equal identifier.
EqualIdPairs ==
    {p \in (DOMAIN left) \X (DOMAIN right) : left[p[1]].afest_id = right[p[2]].afest_id}

IsMatched(l) == \E k \in DOMAIN diff_result.matched : diff_result.matched[k] = l

Compared(e, f) == IF f = "desc" THEN normalize_NFC(e.desc) ELSE e[f]

C10_Final ==
    diff_pc = "done" =>
        /\ \A i \in DOMAIN left :
              (Count(diff_result.deleted, left[i]) > 0)
                  <=> (left[i].afest_id \notin RightIds)
        /\ \A j \in DOMAIN right :
              (Count(diff_result.added, right[j]) > 0)
                  <=> (right[j].afest_id \notin LeftIds)

\* One step of the joint scan.
C10_JointStep ==
    InJointScan =>
        LET lk == current_left.afest_id
            rk == current_right.afest_id
        IN  /\ py_less(lk, rk) =>
                 left_index' = left_index + 1 /\ right_index' = right_index
            /\ py_less(rk, lk) =>
                 left_index' = left_index /\ right_index' = right_index + 1
            /\ (lk = rk) =>
                 left_index' = left_index + 1 /\ right_index' = right_index + 1

\* One step after the joint scan.
C10_TailStep ==
    (diff_pc = "scan" /\ ~InJointScan) =>
        /\ (left_index < Len(left)) =>
              /\ diff_result'.deleted = Append(diff_result.deleted, current_left)
              /\ diff_result'.added = diff_result.added
              /\ left_index' = left_index + 1
        /\ (~(left_index < Len(left)) /\ right_index < Len(right)) =>
              /\ diff_result'.added = Append(diff_result.added, current_right)
              /\ diff_result'.deleted = diff_result.deleted
              /\ right_index' = right_index + 1
        /\ diff_result'.changed = diff_result.changed
        /\ diff_result'.matched = diff_result.matched

\* C10: a distribution record ends up deleted iff no source record has its
\* identifier and a source record ends up added iff no distribution record
\* has its identifier; a step of the joint scan advances only the cursor
\* with the smaller key when the keys differ and both when they are equal;
\* after the joint scan every remaining distribution record is appended to
\* deleted and then every remaining source record to added.
C10_DeletedAddedAndCursors ==
    /\ []C10_Final
    /\ [][C10_JointStep /\ C10_TailStep]_vars

\* C10 witness: a finished diff whose joint scan ended with distribution
\* records left over (a deleted tail) after deleting, adding or pairing.
C10_Witness ==
    /\ diff_pc = "done"
    /\ Len(left) = MaxDiffLen /\ Len(right) > 0
    /\ Len(diff_result.deleted) > 0
    /\ py_less(right[Len(right)].afest_id, left[Len(left)].afest_id)

-----------------------------------------------------------------------------
(* One call of is_match or of merge_events on a pair of records.  event1   *)
(* is the receiver / first argument, event2 the second argument; every     *)
(* ordered pair of the record sets below is an initial state.              *)

Titles     == {"Opening", "Closing"}
Locations  == {"Main Hall", "Room 2"}
StartTimes == {"00:00", "18:00", "22:00"}
EndTimes   == {"01:00", "18:00", "23:59"}

\* Records that differ in the fields is_match reads.
FirstEvents ==
    { AFestEvent(t, d, st, en, DescComposed, lo, "Main", "a1", "9") :
        t \in Titles, d \in DateStrings, st \in StartTimes, en \in EndTimes,
        lo \in Locations }

\* The same, with description, track and distribution id either as in
\* FirstEvents or different.
SecondEvents ==
    FirstEvents \cup
    { AFestEvent(t, d, st, en, DescOther, lo, "", "a2", "9") :
        t \in Titles, d \in DateStrings, st \in StartTimes, en \in EndTimes,
        lo \in Locations }

InitPair ==
    /\ MergeIdle /\ BackfillIdle /\ DiffIdle
    /\ event1 \in FirstEvents
    /\ event2 \in SecondEvents
    /\ call = "none"
    /\ match_ret = FALSE
    /\ merge_ret = MergeRet(Running, NoEvent)

\* event1.is_match(event2)
CallIsMatch ==
    /\ call = "none"
    /\ match_ret' = is_match(event1, event2)
    /\ call' = "is_match"
    /\ UNCHANGED <<event1, event2, merge_ret, merge_vars, backfill_vars, diff_vars>>

\* merge_events(event1, event2)
CallMergeEvents ==
    /\ call = "none"
    /\ merge_ret' = merge_events(event1, event2)
    /\ call' = "merge_events"
    /\ UNCHANGED <<event1, event2, match_ret, merge_vars, backfill_vars, diff_vars>>

NextPair == CallIsMatch \/ CallMergeEvents

SpecPair == InitPair /\ [][NextPair]_vars

-----------------------------------------------------------------------------
(* Properties of is_match and merge_events                                 *)

CalendarDay(e) == toordinal(strptime(e.date))

\* The relation C3 states, with "dates equal" read on the stored date text
\* and "one calendar day after" on the parsed dates.
C3_Stated(c, r) ==
    /\ c.title = r.title
    /\ c.location = r.location
    /\ \/ /\ c.date = r.date
          /\ c.start_time = r.start_time
          /\ (c.end_time = r.end_time \/ c.end_time = "23:59")
       \/ /\ CalendarDay(c) = CalendarDay(r) + 1
          /\ c.start_time = "00:00"
          /\ c.end_time = r.end_time

\* A same-day pair whose candidate ends at 23:59 and whose reference ends
\* at 18:00.
C3_DirectedPair(c, r) ==
    /\ c.title = r.title /\ c.location = r.location /\ c.date = r.date
    /\ c.start_time = r.start_time
    /\ c.end_time = "23:59" /\ r.end_time = "18:00"

C5_Merged(early, late) ==
    AFestEvent(early.title, early.date, early.start_time, late.end_time,
               early.desc, early.location, early.track, early.attendify_id,
               early.afest_id)

-----------------------------------------------------------------------------
(* merge_split_events                                                      *)

\* The first loop: append each event to the list stored under its afest_id
\* (None included: the loop does not look at the value of the key).
RECURSIVE GroupLoop(_, _)
GroupLoop(evts, d) ==
    IF evts = <<>> THEN d
    ELSE LET event   == Head(evts)
             id_list == IF event.afest_id \in DOMAIN d THEN d[event.afest_id] ELSE <<>>
         IN  GroupLoop(Tail(evts), DictPut(d, event.afest_id, Append(id_list, event)))

MergeGroup ==
    /\ merge_pc = "group"
    /\ by_afest_id' = GroupLoop(events, EmptyDict)
    /\ pending' = DOMAIN by_afest_id'
    /\ merge_pc' = "visit"
    /\ UNCHANGED <<events, result, merge_out, pure_vars, backfill_vars, diff_vars>>

\* The second loop visits the keys in the dictionary's own order, which the
\* program does not control: any key not yet visited may be next.

\* len(id_list) == 1
MergeVisitOne ==
    /\ merge_pc = "visit"
    /\ \E afest_id \in pending :
          LET id_list == by_afest_id[afest_id]
          IN  /\ Len(id_list) = 1
              /\ result' = Append(result, id_list[1])
              /\ pending' = pending \ {afest_id}
    /\ UNCHANGED <<events, by_afest_id, merge_pc, merge_out,
                   pure_vars, backfill_vars, diff_vars>>

\* len(id_list) == 2, merge_events returns
MergeVisitTwo ==
    /\ merge_pc = "visit"
    /\ \E afest_id \in pending :
          LET id_list == by_afest_id[afest_id]
          IN  /\ Len(id_list) = 2
              /\ merge_events(id_list[1], id_list[2]).outcome = Returned
              /\ result' = Append(result, merge_events(id_list[1], id_list[2]).event)
              /\ pending' = pending \ {afest_id}
    /\ UNCHANGED <<events, by_afest_id, merge_pc, merge_out,
                   pure_vars, backfill_vars, diff_vars>>

\* len(id_list) == 2, merge_events does not return
MergeVisitTwoRaises ==
    /\ merge_pc = "visit"
    /\ \E afest_id \in pending :
          LET id_list == by_afest_id[afest_id]
          IN  /\ Len(id_list) = 2
              /\ merge_events(id_list[1], id_list[2]).outcome # Returned
              /\ merge_out' = merge_events(id_list[1], id_list[2]).outcome
    /\ merge_pc' = "aborted"
    /\ UNCHANGED <<events, by_afest_id, pending, result,
                   pure_vars, backfill_vars, diff_vars>>

\* else: three or more (a stored list is never empty)
MergeVisitMany ==
    /\ merge_pc = "visit"
    /\ \E afest_id \in pending :
          LET id_list == by_afest_id[afest_id]
          IN  /\ Len(id_list) \notin {1, 2}
              /\ merge_out' = ArgumentParser_exit(RETURN_VALUE_EXCESSIVE_ID_USE,
                                                  <<Len(id_list), afest_id>>)
    /\ merge_pc' = "aborted"
    /\ UNCHANGED <<events, by_afest_id, pending, result,
                   pure_vars, backfill_vars, diff_vars>>

\* return result
MergeReturn ==
    /\ merge_pc = "visit"
    /\ pending = {}
    /\ merge_pc' = "returned"
    /\ merge_out' = Returned
    /\ UNCHANGED <<events, by_afest_id, pending, result,
                   pure_vars, backfill_vars, diff_vars>>

-----------------------------------------------------------------------------
(* Inputs of merge_split_events: the rows of the distribution files, in    *)
(* any order, each with its own distribution id.                           *)

MaxMergeLen == 3

RowIds == <<"a1", "a2", "a3", "a4", "a5">>

MergeDates == {"07/31/2016", "08/01/2016", "8/1/2016"}

\* The first or the second half of an evening event, or an unrelated one.
MergeShapes ==
    { AFestEvent("Opening", d, "22:00", "23:59", DescComposed, "Main Hall", "Main", "", id) :
        d \in MergeDates, id \in {None, "2", "9"} }
    \cup
    { AFestEvent("Closing", d, "00:00", "01:00", DescOther, "Room 2", "", "", id) :
        d \in MergeDates, id \in {None, "2", "9"} }

InitMerge ==
    /\ PureIdle /\ BackfillIdle /\ DiffIdle
    /\ \E n \in 0..MaxMergeLen :
          \E shapes \in [1..n -> MergeShapes] :
              events = [i \in 1..n |-> [shapes[i] EXCEPT !.attendify_id = RowIds[i]]]
    /\ by_afest_id = EmptyDict
    /\ pending = {}
    /\ result = <<>>
    /\ merge_pc = "group"
    /\ merge_out = Running

NextMerge ==
    \/ MergeGroup \/ MergeVisitOne \/ MergeVisitTwo \/ MergeVisitTwoRaises
    \/ MergeVisitMany \/ MergeReturn

SpecMerge == InitMerge /\ [][NextMerge]_vars

-----------------------------------------------------------------------------
(* Properties of merge_split_events                                        *)

\* The input records carrying identifier k, in input order.
GroupOf(k) == SelectSeq(events, LAMBDA e : e.afest_id = k)

WithIdIn(seq, k) == SelectSeq(seq, LAMBDA e : e.afest_id = k)

InEvents(r) == \E i \in DOMAIN events : events[i] = r

Terminated == merge_pc \in {"aborted", "returned"}

\* Identifier k is carried by three or more input records.
Excessive(k) == Len(GroupOf(k)) >= 3

\* Identifier k is carried by exactly two input records of equal date.
SameDayPair(k) ==
    Len(GroupOf(k)) = 2 /\ GroupOf(k)[1].date = GroupOf(k)[2].date

\* The fatal exits the program names.
ExcessiveIdExit(k) ==
    Outcome("exit", RETURN_VALUE_EXCESSIVE_ID_USE, <<Len(GroupOf(k)), k>>)

SameDayExit(k) ==
    Outcome("exit", RETURN_VALUE_SPLIT_EVENTS_SAME_DAY,
            <<GroupOf(k)[1].date, GroupOf(k)[1].title, GroupOf(k)[2].title>>)

\* C4: records without source_id take no part in grouping: a run aborts
\* only because of records that carry an identifier (three or more with
\* one identifier, or two of one identifier and one date), and a run that
\* returns has merged no record without identifier with another (such
\* records are all in the output as they came in, or all left out).
C4_UnsetIdsNotGrouped ==
    /\ merge_pc = "aborted" =>
          \E k \in IdStrings : Excessive(k) \/ SameDayPair(k)
    /\ merge_pc = "returned" =>
          /\ Len(WithIdIn(result, None)) \in {0, Len(GroupOf(None))}
          /\ \A j \in DOMAIN result :
                result[j].afest_id = None => InEvents(result[j])

\* Record i shares its source_id with no other input record.
SharesWithNone(i) ==
    \A j \in DOMAIN events :
        (j # i /\ events[i].afest_id # None) => events[j].afest_id # events[i].afest_id

\* C6: when merge_split_events returns, the output holds exactly one record
\* for every source_id of the input, and every input record whose
\* source_id no other input record carries is in the output unchanged; so
\* an input in which no two records share a source_id comes back as the
\* same records.
C6_OnePerIdAndUnsharedUnchanged ==
    merge_pc = "returned" =>
        /\ \A k \in IdStrings :
              Len(WithIdIn(result, k)) = (IF Len(GroupOf(k)) > 0 THEN 1 ELSE 0)
        /\ \A i \in DOMAIN events :
              SharesWithNone(i) => Count(result, events[i]) = 1
        /\ (\A i \in DOMAIN events : SharesWithNone(i)) => Len(result) = Len(events)

\* C7: when three or more input records carry one source_id the run ends
\* in the excessive-identifier-use exit, reporting that identifier and the
\* count, with no list returned; that exit is never taken without such a
\* group.
C7_ExcessiveIdExit ==
    Terminated =>
        /\ (\E k \in IdStrings : Excessive(k)) =>
              /\ merge_pc = "aborted"
              /\ \E k \in IdStrings : Excessive(k) /\ merge_out = ExcessiveIdExit(k)
        /\ (merge_out.kind = "exit"
                /\ merge_out.status = RETURN_VALUE_EXCESSIVE_ID_USE) =>
              \E k \in IdStrings \cup {None} : Excessive(k)

\* C8: when exactly two input records carry one source_id and have the
\* same date (and no identifier is carried three times) the run ends in
\* the same-day-split exit, reporting the date and both titles, and
\* returns no list; that exit is taken only for two records of equal date.
C8_SameDayExit ==
    Terminated =>
        /\ ((\E k \in IdStrings : SameDayPair(k))
                /\ (\A k \in IdStrings \cup {None} : ~Excessive(k))) =>
              /\ merge_pc = "aborted"
              /\ \E k \in IdStrings : SameDayPair(k) /\ merge_out = SameDayExit(k)
        /\ (merge_out.kind = "exit"
                /\ merge_out.status = RETURN_VALUE_SPLIT_EVENTS_SAME_DAY) =>
              \E k \in IdStrings \cup {None} : SameDayPair(k)

-----------------------------------------------------------------------------
(* add_afest_id_to_attendify and add_ids_to_attendify                      *)

\* A workbook row, as far as this run touches it: its id cell and the
\* [afestid:..] tags appended to its description cell.
Row(at, tags) == [attendify_id |-> at, appended |-> tags]

\* Index of the first row whose id cell equals attendify_id, 0 if none.
FirstRowWith(wb, attendify_id) ==
    IF \E i \in DOMAIN wb : wb[i].attendify_id = attendify_id
    THEN CHOOSE i \in DOMAIN wb :
            /\ wb[i].attendify_id = attendify_id
            /\ \A k \in 1..(i - 1) : wb[k].attendify_id # attendify_id
    ELSE 0

add_afest_id_first_row(wb, attendify_id, afest_id) ==
    IF wb = <<>> THEN wb
    ELSE [wb EXCEPT ![1].appended = Append(@, afest_id)]

add_afest_id_to_attendify(wb, attendify_id, afest_id) ==
    LET i == FirstRowWith(wb, attendify_id)
    IN  IF i = 0 THEN wb
        ELSE [wb EXCEPT ![i].appended = Append(@, afest_id)]

\* Indices of the source records the candidate matches, in feed order.
MatchIndices(at_event, afs) == {j \in DOMAIN afs : is_match(at_event, afs[j])}

last_match_index(at_event, afs) ==
    CHOOSE j \in MatchIndices(at_event, afs) :
        \A k \in MatchIndices(at_event, afs) : k <= j

\* The source record at which the inner loop of the exact search breaks.
first_match_index(at_event, afs) ==
    CHOOSE j \in MatchIndices(at_event, afs) :
        \A k \in MatchIndices(at_event, afs) : j <= k

\* matched_afest_ids: the ids of the source records with the same title.
matched_afest_ids(at_event, afs) ==
    LET hit(e) == e.title = at_event.title
        picked == SelectSeq(afs, hit)
    IN  [k \in 1..Len(picked) |-> picked[k].afest_id]

\* Python truth of an afest_id: None and the empty string are false.
Truthy(x) == x # None /\ x # ""

at_event == attendify_events[at_index + 1]

InOuterLoop == ~saved /\ at_index < Len(attendify_events)

\* if at_event.afest_id: continue
BackfillSkip ==
    /\ InOuterLoop
    /\ Truthy(at_event.afest_id)
    /\ at_index' = at_index + 1
    /\ UNCHANGED <<afest_events, attendify_events, workbook, exact_matches,
                   title_matches, saved, decided, processed,
                   pure_vars, merge_vars, diff_vars>>

\* the exact search finds a source record
BackfillExact ==
    /\ InOuterLoop
    /\ ~Truthy(at_event.afest_id)
    /\ MatchIndices(at_event, afest_events) # {}
    /\ LET af_event == afest_events[first_match_index(at_event, afest_events)]
       IN  workbook' = add_afest_id_to_attendify(workbook, at_event.attendify_id,
                                                  af_event.afest_id)
    /\ exact_matches' = exact_matches + 1
    /\ at_index' = at_index + 1
    /\ UNCHANGED <<afest_events, attendify_events, title_matches, saved,
                   decided, processed,
                   pure_vars, merge_vars, diff_vars>>

\* no exact match, exactly one source record with the same title
BackfillTitle ==
    /\ InOuterLoop
    /\ ~Truthy(at_event.afest_id)
    /\ MatchIndices(at_event, afest_events) = {}
    /\ Len(matched_afest_ids(at_event, afest_events)) = 1
    /\ workbook' = add_afest_id_to_attendify(workbook, at_event.attendify_id,
                                              matched_afest_ids(at_event, afest_events)[1])
    /\ title_matches' = title_matches + 1
    /\ at_index' = at_index + 1
    /\ UNCHANGED <<afest_events, attendify_events, exact_matches, saved,
                   decided, processed,
                   pure_vars, merge_vars, diff_vars>>

\* no exact match, no or several source records with the same title
BackfillNoMatch ==
    /\ InOuterLoop
    /\ ~Truthy(at_event.afest_id)
    /\ MatchIndices(at_event, afest_events) = {}
    /\ Len(matched_afest_ids(at_event, afest_events)) # 1
    /\ at_index' = at_index + 1
    /\ UNCHANGED <<afest_events, attendify_events, workbook, exact_matches,
                   title_matches, saved, decided, processed,
                   pure_vars, merge_vars, diff_vars>>

\* workbook.save(..) after the loop
BackfillSave ==
    /\ ~saved
    /\ ~(at_index < Len(attendify_events))
    /\ saved' = TRUE
    /\ UNCHANGED <<afest_events, attendify_events, workbook, at_index,
                   exact_matches, title_matches, decided, processed,
                   pure_vars, merge_vars, diff_vars>>

-----------------------------------------------------------------------------
(* Inputs of add_ids_to_attendify: a source feed whose records carry       *)
(* distinct ids, and a distribution sheet whose rows carry distinct ids    *)
(* and are tagged with a source id or not.                                 *)

MaxSource == 3
MaxDist == 2

SourceIds == <<"10", "2", "9", "11">>

\* Source records: three sessions titled Opening (the evening before, the
\* same evening ending at 18:00, the same evening ending at 23:59) and one
\* titled Closing.
SourceShapes ==
    { AFestEvent("Opening", de[1], "18:00", de[2], DescComposed, "Main Hall", "Main",
                 "uid", None) :
        de \in {<<"07/31/2016", "18:00">>, <<"08/01/2016", "18:00">>,
                <<"08/01/2016", "23:59">>} }
    \cup
    { AFestEvent("Closing", "08/01/2016", "18:00", "23:59", DescComposed, "Main Hall",
                 "Main", "uid", None) }

\* Distribution rows of 08/01/2016: untagged ones of either title (a whole
\* evening, an evening ending at 18:00, the second half of a split event),
\* and one that already carries a source id.
DistShapes ==
    { AFestEvent(t, "08/01/2016", se[1], se[2], DescOther, "Main Hall", "", "", None) :
        t \in Titles,
        se \in {<<"18:00", "23:59">>, <<"18:00", "18:00">>, <<"00:00", "18:00">>} }
    \cup
    { AFestEvent("Opening", "08/01/2016", "18:00", "23:59", DescOther, "Main Hall", "",
                 "", "9") }

InitBackfill ==
    /\ PureIdle /\ MergeIdle /\ DiffIdle
    /\ \E n \in 0..MaxSource :
          \E shapes \in [1..n -> SourceShapes] :
              afest_events = [j \in 1..n |-> WithId(shapes[j], SourceIds[j])]
    /\ \E n \in 0..MaxDist :
          \E shapes \in [1..n -> DistShapes] :
              attendify_events =
                  [i \in 1..n |-> [shapes[i] EXCEPT !.attendify_id = RowIds[i]]]
    /\ workbook = [i \in DOMAIN attendify_events |->
                      Row(attendify_events[i].attendify_id, <<>>)]
    /\ at_index = 0
    /\ exact_matches = 0
    /\ title_matches = 0
    /\ saved = FALSE
    /\ decided = EmptyDict
    /\ processed = <<>>

NextBackfill ==
    \/ BackfillSkip \/ BackfillExact \/ BackfillTitle \/ BackfillNoMatch
    \/ BackfillSave

SpecBackfill == InitBackfill /\ [][NextBackfill]_vars

-----------------------------------------------------------------------------
(* Properties of the backfill                                              *)

Untagged(i) == attendify_events[i].afest_id = None

HasExact(i) == \E j \in DOMAIN afest_events : is_match(attendify_events[i], afest_events[j])

\* The first source record, in feed order, that record i matches.
FirstExact(i) ==
    CHOOSE j \in DOMAIN afest_events :
        /\ is_match(attendify_events[i], afest_events[j])
        /\ \A k \in 1..(j - 1) : ~is_match(attendify_events[i], afest_events[k])

SameTitle(i) ==
    {j \in DOMAIN afest_events : afest_events[j].title = attendify_events[i].title}

ExactCase(i) == Untagged(i) /\ HasExact(i)
TitleCase(i) == Untagged(i) /\ ~HasExact(i) /\ Cardinality(SameTitle(i)) = 1

\* The tags C9 says record i's row has received once the loop passed it.
C9_Tags(i) ==
    IF ExactCase(i) THEN <<afest_events[FirstExact(i)].afest_id>>
    ELSE IF TitleCase(i)
         THEN <<afest_events[CHOOSE j \in SameTitle(i) : TRUE].afest_id>>
         ELSE <<>>

\* C9: for every distribution record the loop has passed: an untagged
\* record with an exact match got the id of the first matching source
\* record and counts as exact match; an untagged record without exact
\* match and with exactly one same-title source record got that record's
\* id and counts as title match; any other record got nothing and counts
\* nowhere.  Rows the loop has not reached, and tagged rows, have no tag
\* written, and no row ever gets more than one.
C9_BackfillWrites ==
    /\ \A i \in DOMAIN attendify_events :
          /\ Len(workbook[i].appended) <= 1
          /\ workbook[i].appended = (IF i <= at_index THEN C9_Tags(i) ELSE <<>>)
    /\ exact_matches = Cardinality({i \in 1..at_index : ExactCase(i)})
    /\ title_matches = Cardinality({i \in 1..at_index : TitleCase(i)})

\* C9 witness: a saved run in which one untagged record matched two source
\* records and got the id of the first, and another got its id by a
\* unique title match.
C9_Witness ==
    /\ saved
    /\ exact_matches = 1 /\ title_matches = 1
    /\ \E i \in DOMAIN attendify_events :
          /\ Cardinality(MatchIndices(attendify_events[i], afest_events)) = 2
          /\ workbook[i].appended = <<afest_events[1].afest_id>>

-----------------------------------------------------------------------------
(* The body of the outer loop of add_ids_to_attendify as a function, and   *)
(* the loop as its fold over the rows in sheet order.                      *)

Decision(k, id) == [kind |-> k, afest_id |-> id]

\* What the two searches of the loop body find for one row: they read the
\* row's record and the source records, nothing else.
Decide(at, afs) ==
    IF Truthy(at.afest_id) THEN Decision("skip", None)
    ELSE IF MatchIndices(at, afs) # {}
         THEN Decision("exact", afs[first_match_index(at, afs)].afest_id)
         ELSE IF Len(matched_afest_ids(at, afs)) = 1
              THEN Decision("title", matched_afest_ids(at, afs)[1])
              ELSE Decision("none", None)

Tally(wb, exact, title) ==
    [workbook |-> wb, exact_matches |-> exact, title_matches |-> title]

\* The write-back and the counter update that follow a search.
Apply(st, at, d) ==
    IF d.kind = "exact"
    THEN Tally(add_afest_id_to_attendify(st.workbook, at.attendify_id, d.afest_id),
               st.exact_matches + 1, st.title_matches)
    ELSE IF d.kind = "title"
         THEN Tally(add_afest_id_to_attendify(st.workbook, at.attendify_id, d.afest_id),
                    st.exact_matches, st.title_matches + 1)
         ELSE st

RECURSIVE RunLoop(_, _, _)
RunLoop(st, ats, afs) ==
    IF ats = <<>> THEN st
    ELSE RunLoop(Apply(st, Head(ats), Decide(Head(ats), afs)), Tail(ats), afs)

\* The workbook as opened, before any write-back.
OpenedWorkbook(ats) == [i \in DOMAIN ats |-> Row(ats[i].attendify_id, <<>>)]

\* What the sequential run leaves behind for the given feeds.
SequentialRun(ats, afs) == RunLoop(Tally(OpenedWorkbook(ats), 0, 0), ats, afs)

-----------------------------------------------------------------------------
(* The backfill with the rows sharded over workers: a row's search may run *)
(* at any time and in any order relative to the other rows, and so may its *)
(* write-back once its search is done.  The save waits for every row.      *)

Started(i) == i \in DOMAIN decided \/ (\E k \in DOMAIN processed : processed[k] = i)

\* A worker runs the searches of the loop body for row i.
ShardSearch ==
    /\ ~saved
    /\ \E i \in DOMAIN attendify_events :
          /\ ~Started(i)
          /\ decided' = DictPut(decided, i, Decide(attendify_events[i], afest_events))
    /\ UNCHANGED <<afest_events, attendify_events, workbook, at_index, exact_matches,
                   title_matches, saved, processed, pure_vars, merge_vars, diff_vars>>

\* A worker finishes the loop body for row i: write-back and counter.
ShardWrite ==
    /\ ~saved
    /\ \E i \in DOMAIN decided :
          LET st == Apply(Tally(workbook, exact_matches, title_matches),
                          attendify_events[i], decided[i])
          IN  /\ workbook' = st.workbook
              /\ exact_matches' = st.exact_matches
              /\ title_matches' = st.title_matches
              /\ decided' = [k \in (DOMAIN decided) \ {i} |-> decided[k]]
              /\ processed' = Append(processed, i)
    /\ UNCHANGED <<afest_events, attendify_events, at_index, saved,
                   pure_vars, merge_vars, diff_vars>>

\* workbook.save(..) once every row is done
ShardSave ==
    /\ ~saved
    /\ Len(processed) = Len(attendify_events)
    /\ saved' = TRUE
    /\ UNCHANGED <<afest_events, attendify_events, workbook, at_index, exact_matches,
                   title_matches, decided, processed, pure_vars, merge_vars, diff_vars>>

MaxShardSource == 2
MaxShardDist == 2

InitShard ==
    /\ PureIdle /\ MergeIdle /\ DiffIdle
    /\ \E n \in 0..MaxShardSource :
          \E shapes \in [1..n -> SourceShapes] :
              afest_events = [j \in 1..n |-> WithId(shapes[j], SourceIds[j])]
    /\ \E n \in 0..MaxShardDist :
          \E shapes \in [1..n -> DistShapes] :
              attendify_events =
                  [i \in 1..n |-> [shapes[i] EXCEPT !.attendify_id = RowIds[i]]]
    /\ workbook = OpenedWorkbook(attendify_events)
    /\ at_index = 0
    /\ exact_matches = 0
    /\ title_matches = 0
    /\ saved = FALSE
    /\ decided = EmptyDict
    /\ processed = <<>>

NextShard == ShardSearch \/ ShardWrite \/ ShardSave

SpecShard == InitShard /\ [][NextShard]_vars

-----------------------------------------------------------------------------
(* Properties of the sharded backfill                                      *)

\* The (distribution id, source id) pairs written into a workbook.
WriteBacks(wb) ==
    UNION { {<<wb[i].attendify_id, wb[i].appended[k]>> : k \in 1..Len(wb[i].appended)} :
            i \in DOMAIN wb }

\* The sequential loop of SpecBackfill ends where its fold says.
SequentialLoopIsFold ==
    saved => Tally(workbook, exact_matches, title_matches)
                 = SequentialRun(attendify_events, afest_events)

\* C11: whatever the order and interleaving in which the rows were searched
\* and written, the saved run holds the same write-backs (the same
\* workbook, row by row) and the same exact-match and title-match counts
\* as the sequential run over the same feeds.
C11_OrderIndependent ==
    saved =>
        LET seq == SequentialRun(attendify_events, afest_events)
        IN  /\ WriteBacks(workbook) = WriteBacks(seq.workbook)
            /\ workbook = seq.workbook
            /\ exact_matches = seq.exact_matches
            /\ title_matches = seq.title_matches

\* C11 witness: a saved run that finished the second row before the first,
\* one by exact match and one by title match.
C11_Witness ==
    /\ saved
    /\ processed = <<2, 1>>
    /\ exact_matches = 1 /\ title_matches = 1
    /\ Cardinality(WriteBacks(workbook)) = 2

====
